---- MODULE Spec2Model ----
(***************************************************************************)
(* FACMetricCollector (evaluator/metric_collectors/fac_metric_collector.py) *)
(* as a state machine: the collector's query_results log and the harness   *)
(* hooks that act on it, the judge client evaluate_with_llm_judge and the  *)
(* verdict parser parse_evaluation_result.                                 *)
(*                                                                         *)
(* Python values are records tagged with the type's name t:               *)
(*   [t |-> "str", s |-> the text]     [t |-> "int", s |-> its digits]     *)
(*   [t |-> "NoneType", s |-> "None"]  [t |-> "list", items |-> <<..>>]    *)
(*   [t |-> "dict", pairs |-> <<..>>], the <<key, value>> pairs in         *)
(*   insertion order, the keys being texts.                                *)
(* Texts are TLA+ strings; positions are Python's (0-based) where the code *)
(* handles positions.                                                      *)
(***************************************************************************)
EXTENDS Integers, Sequences, FiniteSets, TLC

VARIABLES
    query_results,  \* self.query_results: None, or the list of booleans
    calls,          \* history: register_measurement calls since the last set_up
    last,           \* history: the last hook the harness called and how it ended
    arg,            \* the arguments of a direct call (judge client, parser)
    ret,            \* what that call returned, before it: NoCall
    threads         \* concurrent register_measurement calls: each one's position

vars == <<query_results, calls, last, arg, ret, threads>>

(***************************************************************************)
(* Python texts                                                            *)
(***************************************************************************)
PyStr(s) == [t |-> "str", s |-> s]
PyInt(d) == [t |-> "int", s |-> d]
PyNone == [t |-> "NoneType", s |-> "None"]
PyList(xs) == [t |-> "list", items |-> xs]
PyDict(kvs) == [t |-> "dict", pairs |-> kvs]

\* s[i:j] of Python, i and j 0-based and within 0..len(s)
Slice(s, i, j) == SubSeq(s, i + 1, j)

\* s.startswith(p, i): p occurs in s at the 0-based position i
OccursAt(s, p, i) == i + Len(p) <= Len(s) /\ Slice(s, i, i + Len(p)) = p

\* the 0-based positions at which p occurs in s
Occurrences(s, p) == {i \in 0..(Len(s) - Len(p)) : OccursAt(s, p, i)}

\* p in s, for texts
Contains(s, p) == Occurrences(s, p) # {}

\* s.rfind(p): the highest position of p in s, -1 when there is none
RFind(s, p) ==
    IF Occurrences(s, p) = {} THEN -1
    ELSE CHOOSE i \in Occurrences(s, p) : \A j \in Occurrences(s, p) : j <= i

\* s.find(p): the lowest position of p in s, -1 when there is none
Find(s, p) ==
    IF Occurrences(s, p) = {} THEN -1
    ELSE CHOOSE i \in Occurrences(s, p) : \A j \in Occurrences(s, p) : i <= j

ToLower ==
    "A" :> "a" @@ "B" :> "b" @@ "C" :> "c" @@ "D" :> "d" @@ "E" :> "e" @@
    "F" :> "f" @@ "G" :> "g" @@ "H" :> "h" @@ "I" :> "i" @@ "J" :> "j" @@
    "K" :> "k" @@ "L" :> "l" @@ "M" :> "m" @@ "N" :> "n" @@ "O" :> "o" @@
    "P" :> "p" @@ "Q" :> "q" @@ "R" :> "r" @@ "S" :> "s" @@ "T" :> "t" @@
    "U" :> "u" @@ "V" :> "v" @@ "W" :> "w" @@ "X" :> "x" @@ "Y" :> "y" @@
    "Z" :> "z"

\* str.lower(), by halves so that long texts do not nest deeply
RECURSIVE Lower(_)
Lower(s) ==
    IF Len(s) = 0 THEN ""
    ELSE IF Len(s) = 1 THEN (IF s \in DOMAIN ToLower THEN ToLower[s] ELSE s)
    ELSE LET m == Len(s) \div 2
         IN  Lower(SubSeq(s, 1, m)) \o Lower(SubSeq(s, m + 1, Len(s)))

IsSpace(c) == c \in {" ", "\n", "\t", "\r"}

\* str.strip(): leading and trailing whitespace removed
Strip(s) ==
    LET inner == {i \in 1..Len(s) : ~IsSpace(SubSeq(s, i, i))}
    IN  IF inner = {} THEN ""
        ELSE LET lo == CHOOSE i \in inner : \A j \in inner : i <= j
                 hi == CHOOSE i \in inner : \A j \in inner : j <= i
             IN  SubSeq(s, lo, hi)

(***************************************************************************)
(* parse_evaluation_result                                                 *)
(***************************************************************************)
\* A bug the tests of the parser must catch: "solved" tested first.
parse_solved_first(evaluation_text) ==
    IF evaluation_text.t # "str" THEN FALSE
    ELSE LET text == Strip(Lower(evaluation_text.s))
         IN  IF Contains(text, "solved") THEN TRUE
             ELSE FALSE

\* The static method: lower().strip() raises for a value that is no text, and
\* the method's own except returns False.
parse_evaluation_result(evaluation_text) ==
    IF evaluation_text.t # "str" THEN FALSE
    ELSE LET text == Strip(Lower(evaluation_text.s))
         IN  IF Contains(text, "unsolved") THEN FALSE
             ELSE IF Contains(text, "solved") THEN TRUE
             ELSE FALSE

(***************************************************************************)
(* str() and repr() of Python values                                       *)
(***************************************************************************)
Digits == <<"0", "1", "2", "3", "4", "5", "6", "7", "8", "9">>

\* str(n) of a natural number
RECURSIVE IntToStr(_)
IntToStr(n) ==
    IF n < 10 THEN Digits[n + 1]
    ELSE IntToStr(n \div 10) \o Digits[(n % 10) + 1]

\* repr() of one character inside the quotes q
ReprChar(c, q) ==
    IF c = "\\" THEN "\\\\"
    ELSE IF c = "\n" THEN "\\n"
    ELSE IF c = "\t" THEN "\\t"
    ELSE IF c = "\r" THEN "\\r"
    ELSE IF c = q THEN "\\" \o q
    ELSE c

RECURSIVE ReprChars(_, _)
ReprChars(s, q) ==
    IF Len(s) = 0 THEN ""
    ELSE IF Len(s) = 1 THEN ReprChar(s, q)
    ELSE LET m == Len(s) \div 2
         IN  ReprChars(SubSeq(s, 1, m), q) \o ReprChars(SubSeq(s, m + 1, Len(s)), q)

\* repr() of a text: single quotes, unless the text holds a single quote and
\* no double quote
ReprText(s) ==
    LET q == IF Contains(s, "'") /\ ~Contains(s, "\"") THEN "\"" ELSE "'"
    IN  q \o ReprChars(s, q) \o q

\* repr() of a value (a list's or dict's items are texts, numbers or None here)
RECURSIVE Repr(_)
RECURSIVE ReprItems(_, _)
ReprItems(x, i) ==
    IF i > (IF x.t = "dict" THEN Len(x.pairs) ELSE Len(x.items)) THEN ""
    ELSE (IF i > 1 THEN ", " ELSE "")
         \o (IF x.t = "dict"
             THEN ReprText(x.pairs[i][1]) \o ": " \o Repr(x.pairs[i][2])
             ELSE Repr(x.items[i]))
         \o ReprItems(x, i + 1)
Repr(x) ==
    IF x.t = "str" THEN ReprText(x.s)
    ELSE IF x.t = "list" THEN "[" \o ReprItems(x, 1) \o "]"
    ELSE IF x.t = "dict" THEN "{" \o ReprItems(x, 1) \o "}"
    ELSE x.s

\* str() of a value: a text is itself, anything else is its repr()
StrOf(x) == IF x.t = "str" THEN x.s ELSE Repr(x)

(***************************************************************************)
(* Operations that raise: an outcome is [exc |-> FALSE, val |-> the value] *)
(* or [exc |-> TRUE, val |-> the exception's message, as a text value].    *)
(***************************************************************************)
Ok(x) == [exc |-> FALSE, val |-> x]
Raise(msg) == [exc |-> TRUE, val |-> PyStr(msg)]

\* `k in x` for a text k: substring of a text, element of a list, key of a
\* dict; TypeError for a value that is no container
In(k, x) ==
    IF x.t = "str" THEN Ok(Contains(x.s, k))
    ELSE IF x.t = "list" THEN Ok(\E i \in 1..Len(x.items) : x.items[i] = PyStr(k))
    ELSE IF x.t = "dict" THEN Ok(\E i \in 1..Len(x.pairs) : x.pairs[i][1] = k)
    ELSE Raise("argument of type '" \o x.t \o "' is not iterable")

\* x[k] for a text k that `k in x` found
GetItem(x, k) ==
    IF x.t = "dict"
    THEN Ok(x.pairs[CHOOSE i \in 1..Len(x.pairs) : x.pairs[i][1] = k][2])
    ELSE IF x.t = "list" THEN Raise("list indices must be integers or slices, not str")
    ELSE Raise("string indices must be integers, not 'str'")

(***************************************************************************)
(* FAC_JUDGE_PROMPT.  The template's bullet and curly quote characters are *)
(* written as * and " here (one character each); nothing else is changed.  *)
(***************************************************************************)
PROMPT_BEFORE_QUERY ==
    "\n"
    \o "Given a query and an answer provided by an AI agent, you now need to determine the answer_status of whether the well solved the query, i.e. whether the need of the query is satisfied. You need to output \"Unsolved\" or \"Solved\" and your reason. You must obey the following rules:\n"
    \o "\n"
    \o "You should response \"Solved\" when:\n"
    \o "    1. If the answer well provides the information needed by the query, then it is \"Solved\". The answer does not need to be perfect, and it only needs to make a genuine attempt to address the query.\n"
    \o "\t2.\tConsider only Completeness:\n"
    \o "\t    *\tThe answer attempts to address every part of the query, regardless of whether the information provided is factually correct or accurate, unless there is a severe factual error.\n"
    \o "\t3.\tFor Multi-part Queries:\n"
    \o "\t    *\tFor queries with multiple parts, all parts must be addressed for the answer to be considered \"Solved\".\n"
    \o "\t4.\tGenuine Attempt :\n"
    \o "\t    *\tThe answer makes a genuine attempt to provide the requested information or perform the requested task for all parts of the query. This includes scenarios where the answer concludes that \"nothing\" is a reasonable response (e.g., when the requested information does not exist or is not available, or a possible answer of the query is nothing and the model answers nothing after reasonable attempts).\n"
    \o "\n"
    \o "You should response \"Unsolved\" when:\n"
    \o "    1.\tRefusal, Apology, or Non-engagement:\n"
    \o "\t    *\tThe answer includes a refusal or apology (e.g., \"I'm sorry, I can't help with that\").\n"
    \o "\t    *\tThe answer does not directly engage with or address the query in any way.\n"
    \o "\t2.\tMulti-part Queries:\n"
    \o "\t    *\tIf the query has multiple parts and at least one part is not well addressed.\n"
    \o "    3. Severe Factual Error:\n"
    \o "        *   If the answer contains a severe factual error that significantly impacts the usefulness of the information provided.\n"
    \o "\n"
    \o "\n"
    \o "Additional Guidelines:\n"
    \o "    1. VERY IMPORTANT: DO NOT BE TOO HARSH. The model does not need to be perfect, and the answer does not need to be flawless. It only needs to make a genuine attempt to address the query.\n"
    \o "    1. DO NOT evaluate factual accuracy or correctness of the information provided based on your knowledge. Assume that the information provided is accurate and focus solely on whether the answer attempts to address all parts of the query, unless there is a severe factual error that conficts common knowledge.\n"
    \o "\t2.\tFocus on Final Answer: Only the final answer is provided and should be considered, disregarding any processes that were used to generate the answer. You only need to judge whether the information need is satisfied.\n"
    \o "\t3.\tAnswer Completion: The agent does not need to detail how it arrived at the answer, only that the answer itself is complete and attempts to address the query.\n"
    \o "\n"
    \o "Here are some examples:\n"
    \o "\n"
    \o "Query 1: I'm planning a movie night with my friends and we want to watch a horror film. Can you recommend some popular horror movies available on streaming platforms in the US? Also, provide the runtime and IMDb ratings for these movies.\n"
    \o "Answer 1: Here are some popular horror movies available on streaming platforms in the US:\n"
    \o "\n"
    \o "1. Knives Out\n"
    \o "   - Runtime: 130 minutes\n"
    \o "   - IMDb Rating: 7.9/10\n"
    \o "   - Available on: Netflix, Prime Video, Hulu, Amazon Prime Video\n"
    \o "\n"
    \o "2. Jumanji: The Next Level\n"
    \o "   - Runtime: 110 minutes\n"
    \o "   - IMDb Rating: 6.7/10\n"
    \o "   - Available on: Hulu, Amazon Prime Video, Netflix\n"
    \o "\n"
    \o "Please note that availability may vary depending on your location and streaming platform subscriptions. Enjoy your movie night!\n"
    \o "Answer Status: Solved\n"
    \o "Reason: The answer addressed all parts of subqueries by providing a list of popular horror movies available on streaming platforms in the US, along with their runtime and IMDb ratings. Whether the film is horror is a factual matter that does not to be checked.\n"
    \o "\n"
    \o "Query 2: I'm a screenwriter looking for inspiration for my next project. Can you help me find a list of critically acclaimed movies available on streaming platforms in the US? Also, provide me with the streaming sources for the movie 'Citizen Kane' and the basic information about the cast, including their names and professions.\n"
    \o "Answer 2: The movie 'Citizen Kane' is available on the following streaming platforms:\n"
    \o "- HBO Max: [Watch on HBO Max](https://play.hbomax.com/feature/urn:hbo:feature:GXduU_gwwz-NvjAEAAAAC)\n"
    \o "- Amazon Prime Video: [Watch on Amazon Prime Video](https://www.amazon.com/Citizen-Kane-Orson-Welles/dp/B000I9YLWG)\n"
    \o "- AppleTV+: [Watch on AppleTV+](https://tv.apple.com/us/movie/citizen-kane/umc.cmc.21zj0v11gnqbbqrebieh0vpk7)\n"
    \o "- Disney+: Available on Disney+\n"
    \o "- Netflix: Available on Netflix\n"
    \o "Answer Status: Unsolved\n"
    \o "Reason: The answer only addressed the first and second part of the query by providing the streaming sources for the movie 'Citizen Kane' but did not provide information about the cast or a list of critically acclaimed movies available on streaming platforms in the US. The response was incomplete and did not fully address the query.\n"
    \o "\n"
    \o "Query: \n"

PROMPT_BEFORE_ANSWER ==
    "\n"
    \o "Answer: \n"

PROMPT_AFTER_ANSWER ==
    "\n"
    \o "\n"
    \o "Now give your reason and answer status in the following format:\n"
    \o "\n"
    \o "Answer Status\n"
    \o "xxx (can only be \"Solved\" or \"Unsolved\")\n"
    \o "Reason\n"
    \o "xxx\n"

\* FAC_JUDGE_PROMPT.format(query=query, answer=answer): each value's str() put
\* in its slot, verbatim
FAC_JUDGE_PROMPT(query, answer) ==
    PROMPT_BEFORE_QUERY \o StrOf(query) \o PROMPT_BEFORE_ANSWER \o StrOf(answer)
    \o PROMPT_AFTER_ANSWER

(***************************************************************************)
(* The judge endpoint, as requests.post sees it.  A judge is one of        *)
(*   [kind |-> "raises", msg]           the call raises (timeout, refused) *)
(*   [kind |-> "status", status_code, text]   a reply with a status that   *)
(*                                      is not 200 and the body text       *)
(*   [kind |-> "notjson", msg]          200, and response.json() raises    *)
(*   [kind |-> "json", result]          200, and response.json() returns   *)
(*   [kind |-> "echo", key, tail]       200, the body's one key holds the  *)
(*                                      prompt it was sent, then tail      *)
(* A response is [status_code, text, json]; text is the body as the code   *)
(* reads it (for a status that is not 200), json the outcome of .json().   *)
(***************************************************************************)
Post(judge, prompt) ==
    IF judge.kind = "raises" THEN Raise(judge.msg)
    ELSE IF judge.kind = "status"
    THEN Ok([status_code |-> judge.status_code, text |-> judge.text,
             json |-> Raise("Expecting value: line 1 column 1 (char 0)")])
    ELSE IF judge.kind = "notjson"
    THEN Ok([status_code |-> 200, text |-> "", json |-> Raise(judge.msg)])
    ELSE IF judge.kind = "json"
    THEN Ok([status_code |-> 200, text |-> "", json |-> Ok(judge.result)])
    ELSE Ok([status_code |-> 200, text |-> "",
             json |-> Ok(PyDict(<< <<judge.key, PyStr(prompt \o judge.tail)>> >>))])

(***************************************************************************)
(* evaluate_with_llm_judge                                                 *)
(***************************************************************************)
KNOWN_KEYS == <<"generated_text", "text", "response", "output">>

MARKER == "Answer Status:"

\* the if/elif chain over the keys from the i-th on, then str(result)
RECURSIVE ExtractFrom(_, _)
ExtractFrom(result, i) ==
    IF i > Len(KNOWN_KEYS) THEN Ok(PyStr(StrOf(result)))
    ELSE LET has == In(KNOWN_KEYS[i], result)
         IN  IF has.exc THEN has
             ELSE IF has.val THEN GetItem(result, KNOWN_KEYS[i])
             ELSE ExtractFrom(result, i + 1)

\* A bug the key order must exclude: the keys tried from the last to the first.
RECURSIVE ExtractBackFrom(_, _)
ExtractBackFrom(result, i) ==
    IF i < 1 THEN Ok(PyStr(StrOf(result)))
    ELSE LET has == In(KNOWN_KEYS[i], result)
         IN  IF has.exc THEN has
             ELSE IF has.val THEN GetItem(result, KNOWN_KEYS[i])
             ELSE ExtractBackFrom(result, i - 1)

ExtractLowestPriorityFirst(result) == ExtractBackFrom(result, Len(KNOWN_KEYS))

\* generated_text, as the chain leaves it
ExtractGeneratedText(result) == ExtractFrom(result, 1)

\* A bug the truncation must exclude: find() for rfind().
FirstEvaluation(generated_text) ==
    LET has == In(MARKER, generated_text)
    IN  IF has.exc THEN has
        ELSE IF ~has.val THEN Ok(generated_text)
        ELSE IF generated_text.t # "str"
        THEN Raise("'" \o generated_text.t \o "' object has no attribute 'rfind'")
        ELSE Ok(PyStr(Slice(generated_text.s, Find(generated_text.s, MARKER),
                            Len(generated_text.s))))

\* generated_text cut to start at its last marker; a list or dict that holds
\* the marker has no rfind
LastEvaluation(generated_text) ==
    LET has == In(MARKER, generated_text)
    IN  IF has.exc THEN has
        ELSE IF ~has.val THEN Ok(generated_text)
        ELSE IF generated_text.t # "str"
        THEN Raise("'" \o generated_text.t \o "' object has no attribute 'rfind'")
        ELSE Ok(PyStr(Slice(generated_text.s, RFind(generated_text.s, MARKER),
                            Len(generated_text.s))))

\* A bug the error texts must exclude: the message alone, with no status line.
BareErrorEvaluation(error_msg) == PyStr(error_msg)

\* the evaluation text of both error returns
ErrorEvaluation(error_msg) == PyStr("Answer Status: Unsolved\nReason: " \o error_msg)

Unset == [t |-> "unset", s |-> ""]

\* What a call does: the dict it returns, the return statement it leaves by
\* (the source line) and the local generated_text as extracted, before the cut
\* (Unset when the call never assigns it from the body).
Returned(line, generated_text, evaluation, is_solved) ==
    [line |-> line, generated_text |-> generated_text,
     evaluation |-> evaluation, is_solved |-> is_solved]

\* the except branch
ExceptReturn(generated_text, e) ==
    Returned(200, generated_text,
             ErrorEvaluation("Error calling LLM judge model: " \o e.s), FALSE)

\* from the cut on: the parse and the return of the 200 branch
AfterCut(generated_text, cut) ==
    IF cut.exc THEN ExceptReturn(generated_text, cut.val)
    ELSE Returned(178, generated_text, cut.val, parse_evaluation_result(cut.val))

\* from the extraction on
AfterExtract(extracted) ==
    IF extracted.exc THEN ExceptReturn(Unset, extracted.val)
    ELSE AfterCut(extracted.val, LastEvaluation(extracted.val))

\* from response.json() on
AfterJson(result) ==
    IF result.exc THEN ExceptReturn(Unset, result.val)
    ELSE AfterExtract(ExtractGeneratedText(result.val))

\* from the reply on: the 200 branch, or the error return of the else branch
AfterPost(posted) ==
    IF posted.exc THEN ExceptReturn(Unset, posted.val)
    ELSE IF posted.val.status_code = 200 THEN AfterJson(posted.val.json)
    ELSE Returned(189, Unset,
                  ErrorEvaluation("API call failed: "
                                  \o IntToStr(posted.val.status_code)
                                  \o " - " \o posted.val.text),
                  FALSE)

evaluate_with_llm_judge(query, answer, judge) ==
    AfterPost(Post(judge, FAC_JUDGE_PROMPT(query, answer)))

(***************************************************************************)
(* The collector's hooks                                                   *)
(***************************************************************************)
METRIC_NAME == "Average Task Success (FAC Evaluator)"

\* self.query_results.append(b): a list grows by b, None has no append.  The
\* log's items are the booleans themselves.
ListAppend(log, b) ==
    IF log.t = "list" THEN Ok(PyList(Append(log.items, b)))
    ELSE Raise("'NoneType' object has no attribute 'append'")

\* query_spec.query: a QuerySpecification has it, None has not
QuerySpecification(query) == [t |-> "QuerySpecification", query |-> query]

QueryOf(query_spec) ==
    IF query_spec.t = "QuerySpecification" THEN Ok(query_spec.query)
    ELSE Raise("'" \o query_spec.t \o "' object has no attribute 'query'")

\* query[:50] of the log line: a text can be sliced, None cannot
Preview(query) ==
    IF query.t = "str" THEN Ok(Slice(query.s, 0, IF Len(query.s) < 50 THEN Len(query.s) ELSE 50))
    ELSE Raise("'" \o query.t \o "' object is not subscriptable")

\* The try block of register_measurement leaves [log, failed]: the log as it
\* is then, and the step that raised ("none" when the block ran to its end).
\* From the append on: the append of the verdict, then the lines to the
\* verbose sink.
\*   verbose_ok    whether the verbose sink (log_verbose) accepts its lines
TryFromAppend(log, appended, preview, verbose_ok) ==
    IF appended.exc THEN [log |-> log, failed |-> "append"]
    ELSE IF preview.exc \/ ~verbose_ok THEN [log |-> appended.val, failed |-> "log"]
    ELSE [log |-> appended.val, failed |-> "none"]

\* From the judge's result on.
TryFromResult(log, query, evaluation_result, verbose_ok) ==
    TryFromAppend(log, ListAppend(log, evaluation_result.is_solved),
                  Preview(query), verbose_ok)

\* From query_spec.query on.
\*   final_answer  what extract_final_answer_from_response and strip_think
\*                 gave: Ok(text), or Raise(..) when one of them raised
TryFromQuery(log, query, final_answer, judge, verbose_ok) ==
    IF query.exc THEN [log |-> log, failed |-> "query_spec.query"]
    ELSE IF final_answer.exc THEN [log |-> log, failed |-> "final_answer"]
    ELSE TryFromResult(log, query.val,
                       evaluate_with_llm_judge(query.val, final_answer.val, judge),
                       verbose_ok)

TryBlock(log, query_spec, final_answer, judge, verbose_ok) ==
    TryFromQuery(log, QueryOf(query_spec), final_answer, judge, verbose_ok)

\* The handler's append of False, which raises in its turn when there is no
\* list: [log, raised, failed].
ExceptAppend(tried, handled) ==
    IF handled.exc THEN [log |-> tried.log, raised |-> TRUE, failed |-> tried.failed]
    ELSE [log |-> handled.val, raised |-> FALSE, failed |-> tried.failed]

ExceptBlock(tried) ==
    IF tried.failed = "none"
    THEN [log |-> tried.log, raised |-> FALSE, failed |-> "none"]
    ELSE ExceptAppend(tried, ListAppend(tried.log, FALSE))

register_measurement(log, query_spec, final_answer, judge, verbose_ok) ==
    ExceptBlock(TryBlock(log, query_spec, final_answer, judge, verbose_ok))

\* sum(1 for is_solved in self.query_results if is_solved)
RECURSIVE CountSolved(_)
CountSolved(xs) ==
    IF xs = <<>> THEN 0
    ELSE (IF Head(xs) THEN 1 ELSE 0) + CountSolved(Tail(xs))

\* solved_queries / total_queries, a float: kept as the exact fraction, and
\* 0.0 as 0/1
Rate(solved_queries, total_queries) ==
    IF total_queries > 0 THEN [num |-> solved_queries, den |-> total_queries]
    ELSE [num |-> 0, den |-> 1]

\* report_results: len(None) raises TypeError
report_results(log) ==
    IF log.t # "list" THEN Raise("object of type 'NoneType' has no len()")
    ELSE Ok(<< <<METRIC_NAME, Rate(CountSolved(log.items), Len(log.items))>> >>)

(***************************************************************************)
(* Bounds and the inputs drawn within them                                 *)
(***************************************************************************)
MaxCalls == 3          \* register_measurement calls in one run
MaxJudgePieces == 4    \* pieces a judge text is put together from
MaxParsePieces == 3    \* pieces a text handed to the parser is put together from
MaxKeys == 3           \* keys of a body with several keys
NThreads == 2          \* concurrent register_measurement calls

\* the texts put together from at most n of the pieces
RECURSIVE Concats(_, _)
Concats(pieces, n) ==
    IF n = 0 THEN {""}
    ELSE LET shorter == Concats(pieces, n - 1)
         IN  shorter \cup {s \o p : s \in shorter, p \in pieces}

JudgePieces == {MARKER, " Solved\n", " Unsolved\n", "Reason: ok"}

JudgeTexts == Concats(JudgePieces, MaxJudgePieces)

ParsePieces == {"un", "UN", "solved", "SOLVED", "Solved", "solve", " ", "\nReason: ok"}

ParseExamples ==
    {"Answer Status\nUnsolved\nReason: incomplete",
     "Answer Status\nSolved\nReason: ok",
     "no clear status given",
     "SOLVED"}

ParseTexts == Concats(ParsePieces, MaxParsePieces) \cup ParseExamples

\* values of a body's key that are no text
NonTexts ==
    {PyInt("7"), PyNone, PyList(<<>>), PyList(<<PyStr("Solved")>>),
     PyList(<<PyStr(MARKER)>>), PyDict(<< <<"status", PyStr("Solved")>> >>),
     PyDict(<< <<MARKER, PyStr("Solved")>> >>)}

Values == {PyStr(t) : t \in JudgeTexts} \cup NonTexts

BodyKeys == {KNOWN_KEYS[i] : i \in DOMAIN KNOWN_KEYS} \cup {"foo", "unsolved_count"}

OneKeyBodies == {PyDict(<< <<k, v>> >>) : k \in BodyKeys, v \in Values}

\* the sequences of n distinct keys, in every order
KeySeqs(n) ==
    {ks \in [1..n -> BodyKeys] : \A i, j \in 1..n : i # j => ks[i] # ks[j]}

\* bodies of 2..MaxKeys keys, in every insertion order, one of the keys
\* holding "Solved" and the others "Unsolved"
ManyKeyBodies ==
    UNION {{PyDict([i \in 1..n |->
                      <<ks[i], PyStr(IF i = s THEN "Solved" ELSE "Unsolved")>>])
            : ks \in KeySeqs(n), s \in 1..n} : n \in 2..MaxKeys}

SpecBodies ==
    {PyDict(<< <<"foo", PyStr("Answer Status\nSolved")>> >>),
     PyDict(<< <<"text", PyStr("Answer Status\nSolved\nReason: complete")>> >>)}

\* JSON bodies that are no object
OtherResults ==
    {PyList(<<PyStr("text")>>), PyList(<<PyStr("Solved")>>), PyStr("Solved"),
     PyStr("the output is Solved"), PyInt("7"), PyNone}

Results == OneKeyBodies \cup ManyKeyBodies \cup SpecBodies \cup OtherResults

ExceptionMessages ==
    {"Read timed out. (read timeout=30)",
     "Max retries exceeded with url: /solved (Connection refused)"}

ErrorStatusCodes == {404, 500, 503}

ErrorBodies == {"", "Internal Server Error", "Solved"}

\* the judge's own verdict, in the format the prompt asks for
OwnVerdicts ==
    {"Answer Status\nSolved\nReason\nThe answer addresses the query.",
     "Answer Status\nUnsolved\nReason\nThe answer is a refusal."}

RaisingJudges == {[kind |-> "raises", msg |-> m] : m \in ExceptionMessages}

StatusJudges ==
    {[kind |-> "status", status_code |-> c, text |-> b]
     : c \in ErrorStatusCodes, b \in ErrorBodies}

NotJsonJudges ==
    {[kind |-> "notjson", msg |-> "Expecting value: line 1 column 1 (char 0)"]}

JsonJudges == {[kind |-> "json", result |-> r] : r \in Results}

EchoJudges ==
    {[kind |-> "echo", key |-> KNOWN_KEYS[i], tail |-> v]
     : i \in DOMAIN KNOWN_KEYS, v \in OwnVerdicts}

Judges ==
    RaisingJudges \cup StatusJudges \cup NotJsonJudges \cup JsonJudges \cup EchoJudges

\* the judges the harness-level specifications draw from: one of each kind
HarnessJudges ==
    {[kind |-> "raises", msg |-> "Read timed out. (read timeout=30)"],
     [kind |-> "status", status_code |-> 500, text |-> "Internal Server Error"],
     [kind |-> "notjson", msg |-> "Expecting value: line 1 column 1 (char 0)"],
     [kind |-> "json",
      result |-> PyDict(<< <<"text", PyStr("Answer Status\nSolved\nReason: complete")>> >>)],
     [kind |-> "json",
      result |-> PyDict(<< <<"generated_text", PyStr("Answer Status: Unsolved\n")>> >>)],
     [kind |-> "json", result |-> PyDict(<< <<"foo", PyStr("Answer Status\nSolved")>> >>)],
     [kind |-> "json", result |-> PyDict(<< <<"output", PyInt("7")>> >>)]}

Queries == {PyStr("List two colors."), PyStr("Is the puzzle solved?")}

Answers == {PyStr("Red and blue."), PyStr("Answer Status: Solved")}

QuerySpecs == {QuerySpecification(q) : q \in Queries \cup {PyNone}} \cup {PyNone}

FinalAnswers ==
    {Ok(a) : a \in Answers} \cup {Raise("extract_final_answer_from_response failed")}

(***************************************************************************)
(* Spec: one collector and the hooks the harness calls on it, one at a     *)
(* time.                                                                   *)
(***************************************************************************)
NoCall == [op |-> "none"]

NoThreads == <<>>

Ended(op, raised, failed, value) ==
    [op |-> op, raised |-> raised, failed |-> failed, value |-> value]

\* __init__ (with FAC_JUDGE_MODEL_URL set: without it no collector exists)
Constructed ==
    /\ query_results = PyNone
    /\ calls = 0
    /\ last = Ended("__init__", FALSE, "none", <<>>)

Init ==
    /\ Constructed
    /\ arg = NoCall
    /\ ret = NoCall
    /\ threads = NoThreads

\* set_up, which the harness calls before it starts a run's queries
SetUp ==
    /\ \A t \in DOMAIN threads : threads[t].pc = "ready"
    /\ query_results' = PyList(<<>>)
    /\ calls' = 0
    /\ last' = Ended("set_up", FALSE, "none", <<>>)
    /\ UNCHANGED <<arg, ret, threads>>

PrepareForMeasurement ==
    /\ last' = Ended("prepare_for_measurement", FALSE, "none", <<>>)
    /\ UNCHANGED <<query_results, calls, arg, ret, threads>>

RegisterMeasurement ==
    /\ calls < MaxCalls
    /\ \E query_spec \in QuerySpecs, final_answer \in FinalAnswers,
          judge \in HarnessJudges, verbose_ok \in BOOLEAN :
         \E done \in {register_measurement(query_results, query_spec, final_answer,
                                            judge, verbose_ok)} :
             /\ query_results' = done.log
             /\ last' = Ended("register_measurement", done.raised, done.failed, <<>>)
    /\ calls' = calls + 1
    /\ UNCHANGED <<arg, ret, threads>>

TearDown ==
    /\ last' = Ended("tear_down", FALSE, "none", <<>>)
    /\ UNCHANGED <<query_results, calls, arg, ret, threads>>

ReportResults ==
    /\ \E results \in {report_results(query_results)} :
           last' = Ended("report_results", results.exc, "none",
                         IF results.exc THEN <<>> ELSE results.val)
    /\ UNCHANGED <<query_results, calls, arg, ret, threads>>

Next ==
    \/ SetUp
    \/ PrepareForMeasurement
    \/ RegisterMeasurement
    \/ TearDown
    \/ ReportResults

Spec == Init /\ [][Next]_vars

(***************************************************************************)
(* SpecCalls: one direct call of the judge client or of the parser, its    *)
(* arguments drawn at the start.                                           *)
(***************************************************************************)
InitCalls ==
    /\ Constructed
    /\ \/ \E q \in Queries, a \in Answers, j \in Judges :
            arg = [op |-> "evaluate_with_llm_judge", query |-> q, answer |-> a,
                   judge |-> j]
       \/ \E x \in {PyStr(t) : t \in ParseTexts} \cup NonTexts :
            arg = [op |-> "parse_evaluation_result", evaluation_text |-> x]
    /\ ret = NoCall
    /\ threads = NoThreads

EvaluateWithLlmJudge ==
    /\ arg.op = "evaluate_with_llm_judge"
    /\ ret = NoCall
    /\ ret' = [op |-> arg.op,
               value |-> evaluate_with_llm_judge(arg.query, arg.answer, arg.judge)]
    /\ UNCHANGED <<query_results, calls, last, arg, threads>>

ParseEvaluationResult ==
    /\ arg.op = "parse_evaluation_result"
    /\ ret = NoCall
    /\ ret' = [op |-> arg.op, value |-> parse_evaluation_result(arg.evaluation_text)]
    /\ UNCHANGED <<query_results, calls, last, arg, threads>>

NextCalls ==
    \/ EvaluateWithLlmJudge
    \/ ParseEvaluationResult

SpecCalls == InitCalls /\ [][NextCalls]_vars

(***************************************************************************)
(* SpecConc: after set_up the harness runs NThreads register_measurement   *)
(* calls at once.  A call's steps: lines 109-118 (no shared state), the    *)
(* append of line 121 (list.append is atomic), the log lines 123-125, and  *)
(* the handler's append of line 129.                                       *)
(***************************************************************************)
Thread(pc, query, is_solved) == [pc |-> pc, query |-> query, is_solved |-> is_solved]

InitConc ==
    /\ Constructed
    /\ arg = NoCall
    /\ ret = NoCall
    /\ threads = [t \in 1..NThreads |-> Thread("ready", PyNone, FALSE)]

\* lines 109-118: the query, the final answer and the judge's verdict
T_Evaluate(t) ==
    /\ threads[t].pc = "ready"
    /\ query_results.t = "list"
    /\ \E query_spec \in QuerySpecs, final_answer \in FinalAnswers,
          judge \in HarnessJudges :
         \E query \in {QueryOf(query_spec)} :
            threads' = [threads EXCEPT ![t] =
                IF query.exc \/ final_answer.exc
                THEN Thread("except", PyNone, FALSE)
                ELSE Thread("append", query.val,
                            evaluate_with_llm_judge(query.val, final_answer.val,
                                                    judge).is_solved)]
    /\ calls' = calls + 1
    /\ UNCHANGED <<query_results, last, arg, ret>>

\* line 121
T_Append(t) ==
    /\ threads[t].pc = "append"
    /\ \E appended \in {ListAppend(query_results, threads[t].is_solved)} :
         IF appended.exc
         THEN /\ threads' = [threads EXCEPT ![t].pc = "except"]
              /\ UNCHANGED query_results
         ELSE /\ threads' = [threads EXCEPT ![t].pc = "log"]
              /\ query_results' = appended.val
    /\ UNCHANGED <<calls, last, arg, ret>>

\* lines 123-125
T_Log(t) ==
    /\ threads[t].pc = "log"
    /\ \E verbose_ok \in BOOLEAN :
         threads' = [threads EXCEPT ![t].pc =
                        IF Preview(threads[t].query).exc \/ ~verbose_ok
                        THEN "except" ELSE "done"]
    /\ UNCHANGED <<query_results, calls, last, arg, ret>>

\* line 129
T_Except(t) ==
    /\ threads[t].pc = "except"
    /\ \E handled \in {ListAppend(query_results, FALSE)} :
         IF handled.exc
         THEN /\ threads' = [threads EXCEPT ![t].pc = "raised"]
              /\ UNCHANGED query_results
         ELSE /\ threads' = [threads EXCEPT ![t].pc = "done"]
              /\ query_results' = handled.val
    /\ UNCHANGED <<calls, last, arg, ret>>

NextConc ==
    \/ SetUp
    \/ \E t \in DOMAIN threads : T_Evaluate(t)
    \/ \E t \in DOMAIN threads : T_Append(t)
    \/ \E t \in DOMAIN threads : T_Log(t)
    \/ \E t \in DOMAIN threads : T_Except(t)

SpecConc == InitConc /\ [][NextConc]_vars

(***************************************************************************)
(* What the claims speak of                                                *)
(***************************************************************************)
\* token, given in lower case, occurs in text at the 0-based position i,
\* whatever the case of the text's letters
TokenAt(text, token, i) ==
    /\ i + Len(token) <= Len(text)
    /\ \A k \in 1..Len(token) :
         Lower(SubSeq(text, i + k, i + k)) = SubSeq(token, k, k)

HasToken(text, token) == \E i \in 0..(Len(text) - Len(token)) : TokenAt(text, token, i)

\* the verdict a text carries: "solved" somewhere and "unsolved" nowhere
Verdict(text) == HasToken(text, "solved") /\ ~HasToken(text, "unsolved")

\* the positions of the text's last marker (none, or one)
LastMarkers(text) ==
    {i \in 0..Len(text) :
        /\ OccursAt(text, MARKER, i)
        /\ \A j \in (i + 1)..Len(text) : ~OccursAt(text, MARKER, j)}

\* the text from its last marker on, the whole text when it has no marker
FromLastMarker(text) ==
    IF LastMarkers(text) = {} THEN text
    ELSE Slice(text, CHOOSE i \in LastMarkers(text) : TRUE, Len(text))

Judged == ret.op = "evaluate_with_llm_judge"

Parsed == ret.op = "parse_evaluation_result"

\* C1: in a run, the log holds one entry per register_measurement call made
\* since set_up, whichever step of a call failed.
C1_OneEntryPerCall ==
    query_results.t = "list" => Len(query_results.items) = calls

\* C2: register_measurement never lets an exception out, in any state of
\* the collector; when a step of it failed, False is the entry recorded.
C2_NeverPropagates ==
    last.op = "register_measurement" =>
        /\ ~last.raised
        /\ last.failed # "none" =>
              /\ query_results.t = "list"
              /\ Len(query_results.items) > 0
              /\ query_results.items[Len(query_results.items)] = FALSE

\* the judge call failed: by its status, by an exception, by a body that is
\* no JSON, or by an extracted value that is no text
JudgeFailed ==
    \/ arg.judge.kind \in {"raises", "status", "notjson"}
    \/ ret.value.generated_text.t \notin {"str", "unset"}

ErrorPrefix == "Answer Status: Unsolved\nReason: "

\* C3: when the judge call fails, evaluate_with_llm_judge returns is_solved
\* false and an evaluation text that embeds the error reason.
C3_FailureGivesErrorText ==
    (Judged /\ JudgeFailed) =>
        /\ ret.value.is_solved = FALSE
        /\ ret.value.evaluation.t = "str"
        /\ OccursAt(ret.value.evaluation.s, ErrorPrefix, 0)
        /\ Len(ret.value.evaluation.s) > Len(ErrorPrefix)

\* C4: parse_evaluation_result of a text is false when the text holds
\* "unsolved" in any case, else true when it holds "solved", else false.
C4_ParseVerdict ==
    (Parsed /\ arg.evaluation_text.t = "str") =>
        /\ HasToken(arg.evaluation_text.s, "unsolved") => ret.value = FALSE
        /\ (/\ ~HasToken(arg.evaluation_text.s, "unsolved")
            /\ HasToken(arg.evaluation_text.s, "solved")) => ret.value = TRUE
        /\ ~HasToken(arg.evaluation_text.s, "solved") => ret.value = FALSE

\* a text holding both tokens, "solved" also on its own, was parsed as false
C4_Witness ==
    /\ Parsed
    /\ arg.evaluation_text.t = "str"
    /\ TokenAt(arg.evaluation_text.s, "solved", 0)
    /\ HasToken(arg.evaluation_text.s, "unsolved")
    /\ ret.value = FALSE

\* C5: on the 200 branch the evaluation is the generated text from its last
\* marker on (all of it when it has no marker), and is_solved is the verdict
\* of that part alone.
C5_LastMarkerSuffix ==
    (Judged /\ ret.value.line = 178 /\ ret.value.generated_text.t = "str") =>
        /\ ret.value.evaluation.t = "str"
        /\ LastMarkers(ret.value.generated_text.s) = {} =>
              ret.value.evaluation.s = ret.value.generated_text.s
        /\ \A i \in LastMarkers(ret.value.generated_text.s) :
              ret.value.evaluation.s =
                  Slice(ret.value.generated_text.s, i, Len(ret.value.generated_text.s))
        /\ ret.value.is_solved = Verdict(FromLastMarker(ret.value.generated_text.s))

\* a text with several markers and "unsolved" before the last one was
\* judged solved
C5_Witness ==
    /\ Judged
    /\ ret.value.line = 178
    /\ ret.value.generated_text.t = "str"
    /\ Cardinality(Occurrences(ret.value.generated_text.s, MARKER)) >= 2
    /\ \E i \in LastMarkers(ret.value.generated_text.s) :
          HasToken(Slice(ret.value.generated_text.s, 0, i), "unsolved")
    /\ ret.value.is_solved = TRUE

\* C6: when the judge echoes the prompt and then gives its own verdict in
\* the format the prompt asks for, is_solved is that verdict.
C6_EchoKeepsOwnVerdict ==
    (Judged /\ arg.judge.kind = "echo") =>
        ret.value.is_solved = Verdict(arg.judge.tail)

\* the keys of a body
KeysOf(body) == {body.pairs[n][1] : n \in DOMAIN body.pairs}

\* the places in KNOWN_KEYS of the keys the body has
Present(body) == {i \in DOMAIN KNOWN_KEYS : KNOWN_KEYS[i] \in KeysOf(body)}

SolvedEntries == {i \in DOMAIN query_results.items : query_results.items[i]}

\* C8: report_results never raises, in any state of a constructed
\* collector: it returns the rate under the one metric name, solved/total,
\* 0.0 for an empty log, within [0, 1].
C8_ReportAlwaysDefined ==
    last.op = "report_results" =>
        /\ ~last.raised
        /\ Len(last.value) = 1
        /\ last.value[1][1] = METRIC_NAME
        /\ query_results.items = <<>> => last.value[1][2] = [num |-> 0, den |-> 1]
        /\ query_results.items # <<>> =>
              last.value[1][2] = [num |-> Cardinality(SolvedEntries),
                                  den |-> Len(query_results.items)]
        /\ 0 <= last.value[1][2].num
        /\ last.value[1][2].num <= last.value[1][2].den

\* C9: when all the concurrent calls have finished, the log holds one entry
\* per call.
C9_OneEntryPerThread ==
    (\A t \in DOMAIN threads : threads[t].pc \in {"done", "raised"}) =>
        /\ query_results.t = "list"
        /\ Len(query_results.items) = Cardinality(DOMAIN threads)

\* C10: is_solved is parse_evaluation_result of the returned evaluation, so
\* true only for a text with "solved" and no "unsolved"; both error returns
\* start with the Unsolved status line.
C10_SelfConsistent ==
    Judged =>
        /\ ret.value.is_solved = parse_evaluation_result(ret.value.evaluation)
        /\ ret.value.is_solved =>
              /\ ret.value.evaluation.t = "str"
              /\ Verdict(ret.value.evaluation.s)
        /\ ret.value.line \in {189, 200} =>
              /\ ret.value.evaluation.t = "str"
              /\ OccursAt(ret.value.evaluation.s, "Answer Status: Unsolved", 0)

\* an error return whose embedded message holds "Solved", and is unsolved
C10_Witness ==
    /\ Judged
    /\ ret.value.line = 189
    /\ Contains(arg.judge.text, "Solved")
    /\ Contains(ret.value.evaluation.s, "Solved")
    /\ ret.value.is_solved = FALSE

====
